---- MODULE Spec2Model ----
(***************************************************************************)
(* Resumable (TUS) uploads of the filetree backend.                        *)
(*                                                                         *)
(* Two implementations of the protocol are registered under                *)
(* /api/upload/tus: backend/routes/tus.py (session table in                *)
(* TusMetadataStore, backing file data/tus_temp/<id>) and the older        *)
(* handlers of backend/routes/api.py (TusService, <id>.info + <id>.bin).   *)
(* `router` fixes which of the two serves the requests of a behaviour.     *)
(*                                                                         *)
(* Handlers are coroutines: every `await` of the source ends a step, and   *)
(* the synchronous code between two awaits is one atomic step.  The        *)
(* sqlite calls of TusMetadataStore are blocking and therefore atomic.     *)
(*                                                                         *)
(* Data shapes are abstracted: the owner column of the session table holds *)
(* the username the route passes, a filename is the pair <<stem, ext>>     *)
(* that os.path.splitext yields, an inode number is the id of the upload   *)
(* whose backing file it was created for, and a content hash is the        *)
(* content itself (SHA-256 taken as collision free).                       *)
(***************************************************************************)
EXTENDS Integers, Sequences, FiniteSets, TLC

\* ------------------------------------------------------------------ bounds
MaxUploads == 2     \* uuid4 values drawn in one behaviour
MaxSize == 2        \* largest declared Upload-Length
MaxChunk == 2       \* longest request body
MaxRequests == 4    \* requests received in one behaviour
MaxRuns == 2        \* starts of the service in one behaviour
MaxDays == 2        \* days the clock advances in one behaviour
threshold == 2             \* settings.r2.threshold_mb, in bytes, scaled down
max_concurrent_uploads == 2  \* settings.r2.max_concurrent_uploads, scaled down
monthly_limit_class_a == 3   \* settings.r2.monthly_limit_class_a, scaled down
monthly_limit_class_b == 2   \* settings.r2.monthly_limit_class_b, scaled down
MaxMonths == 1      \* changes of the calendar month in one behaviour
MaxDownloads == 2   \* accelerated downloads under way at one time

Procs == {"h1", "h2"}             \* concurrently running request handlers
Bytes == {"x", "y"}
Chunks == UNION {[1..n -> Bytes] : n \in 0..MaxChunk}
Sizes == 1..MaxSize              \* declared Upload-Length values
Offsets == 0..MaxSize            \* declared Upload-Offset values
UploadIds == 1..MaxUploads

FileA == <<"a", ".txt">>

\* Upload-Metadata dictionaries a client sends (after parse_tus_metadata);
\* "" stands for an absent key.
Metas ==
  { [filename |-> FileA, password |-> "pw-alice", lastModified |-> ""],
    [filename |-> FileA, password |-> "pw-bob",   lastModified |-> ""],
    [filename |-> FileA, password |-> "wrong",    lastModified |-> ""],
    [filename |-> FileA, password |-> "",         lastModified |-> ""] }

NoUser == "none"

VARIABLES
  router,       \* "tus" (routes/tus.py) or "api" (routes/api.py + TusService)
  next_uuid,    \* how many uuid4 values have been drawn
  tus_uploads,  \* table tus_uploads: id -> row
  tus_temp,     \* data/tus_temp/<id>: id -> bytes of the backing file
  tus_info,     \* TusService <id>.info: id -> [length, offset, metadata]
  tus_data,     \* TusService <id>.bin: id -> bytes
  user_files,   \* uploads/<user>/<name>: <<user, name>> -> inode
  inode_data,   \* inode -> bytes, for the inodes linked from user_files
  files,        \* files.db, table files: <<username, filename>> -> size_bytes
  hash_map,     \* DedupService._hash_map: content hash -> path
  pc,           \* position of each handler
  loc,          \* locals of each handler
  resp,         \* the response sent by the step just taken, if any
  requests,     \* how many requests have been received
  serial,       \* TRUE: the client waits for each response before its next request
  origin,       \* history: path in user_files -> upload it was imported from
  chain,        \* history: per session, the Appends a waiting client has sent
  deduped,      \* history: files deduplicate has run on with their present bytes
  now,          \* the wall clock, in days
  recon,        \* FileService.reconcile_all_users: position, locals and stats
  r2            \* R2Service: _client, _usage and _active_uploads

vars == <<router, next_uuid, tus_uploads, tus_temp, tus_info, tus_data,
          user_files, inode_data, files, hash_map, pc, loc, resp, requests,
          serial, origin, chain, deduped, now, recon, r2>>

store == <<tus_uploads, tus_temp>>
legacy == <<tus_info, tus_data>>
owner_storage == <<user_files, inode_data, files, hash_map, origin, deduped>>
\* what the upload handlers never touch
outside == <<now, recon, r2>>

\* ----------------------------------------------------------------- helpers
Remove(f, k) == [x \in DOMAIN f \ {k} |-> f[x]]
Put(f, k, v) == [x \in DOMAIN f \cup {k} |-> IF x = k THEN v ELSE f[x]]
SetMax(S) == CHOOSE x \in S : \A y \in S : y <= x
SetMin(S) == CHOOSE x \in S : \A y \in S : x <= y
\* the number of the inode a newly linked file gets
FreshInode(data) ==
  SetMin({n \in 1..(Cardinality(DOMAIN data) + 1) : n \notin DOMAIN data})
\* inodes no directory entry links to any more are freed
LinkedOnly(uf, data) ==
  [i \in {uf[q] : q \in DOMAIN uf} \cap DOMAIN data |-> data[i]]

NoName == <<"", "">>
NoMeta == [filename |-> NoName, password |-> "", lastModified |-> ""]
NoLoc == [id |-> 0, chunk |-> <<>>, current_offset |-> 0, size |-> 0,
          username |-> NoUser, filename |-> NoName, name |-> NoName,
          hash |-> <<>>, meta |-> NoMeta, upload_offset |-> 0,
          partial_ids |-> <<>>]
Response(op, status, id, offset, meta, length, declared) ==
  [op |-> op, status |-> status, id |-> id, offset |-> offset,
   meta |-> meta, length |-> length, declared |-> declared, parts |-> <<>>]
NoResp == Response("none", 0, 0, 0, NoMeta, 0, 0)

\* user_service.get_user_by_password: the owner a credential belongs to
get_user_by_password(password) ==
  IF password = "pw-alice" THEN "alice"
  ELSE IF password = "pw-bob" THEN "bob"
  ELSE NoUser

PathString(filename) == filename[1] \o filename[2]

calculate_fingerprint(filename, size, modified) ==
  IF modified # ""
  THEN PathString(filename) \o "-" \o ToString(size) \o "-" \o modified
  ELSE PathString(filename) \o "-" \o ToString(size)

\* ------------------------------------------------------- TusMetadataStore
\* UNIQUE(fingerprint, user_id) and PRIMARY KEY(id) of table tus_uploads
insert_allowed(tbl, upload_id, fingerprint, user_id) ==
  /\ upload_id \notin DOMAIN tbl
  /\ \A i \in DOMAIN tbl :
       ~(tbl[i].fingerprint = fingerprint /\ tbl[i].user_id = user_id)

\* an INSERT whose bindings put the upload id into the fingerprint column
create_upload_id_as_fingerprint(tbl, upload_id, fingerprint, user_id, size, filename, metadata) ==
  Put(tbl, upload_id,
      [fingerprint |-> ToString(upload_id), user_id |-> user_id, offset |-> 0,
       size |-> size, filename |-> filename, metadata |-> metadata,
       status |-> "active", created_at |-> now])

\* the row INSERTed by create_upload
create_upload(tbl, upload_id, fingerprint, user_id, size, filename, metadata) ==
  Put(tbl, upload_id,
      [fingerprint |-> fingerprint, user_id |-> user_id, offset |-> 0,
       size |-> size, filename |-> filename, metadata |-> metadata,
       status |-> "active", created_at |-> now])

\* a lookup whose WHERE clause leaves out user_id
get_upload_by_fingerprint_any_owner(tbl, fingerprint, user_id) ==
  LET hits == {i \in DOMAIN tbl : /\ tbl[i].fingerprint = fingerprint
                                  /\ tbl[i].status = "active"}
  IN IF hits = {} THEN 0 ELSE SetMax(hits)

\* id of the newest active row for (fingerprint, user_id), 0 when there is none
get_upload_by_fingerprint(tbl, fingerprint, user_id) ==
  LET hits == {i \in DOMAIN tbl : /\ tbl[i].fingerprint = fingerprint
                                  /\ tbl[i].user_id = user_id
                                  /\ tbl[i].status = "active"}
  IN IF hits = {} THEN 0 ELSE SetMax(hits)

update_offset(tbl, upload_id, offset) ==
  IF upload_id \in DOMAIN tbl
  THEN [tbl EXCEPT ![upload_id].offset = offset]
  ELSE tbl

mark_completed(tbl, upload_id) ==
  IF upload_id \in DOMAIN tbl
  THEN [tbl EXCEPT ![upload_id].status = "completed"]
  ELSE tbl

\* an UPDATE that sets the wrong status
mark_aborted_as_completed(tbl, upload_id) ==
  IF upload_id \in DOMAIN tbl
  THEN [tbl EXCEPT ![upload_id].status = "completed"]
  ELSE tbl

mark_aborted(tbl, upload_id) ==
  IF upload_id \in DOMAIN tbl
  THEN [tbl EXCEPT ![upload_id].status = "aborted"]
  ELSE tbl

\* ---------------------------------------------------------------- history
\* What a client that waits for every response has sent to a session: `ok`
\* while every Append it sent declared the offset where the previous one
\* ended, stayed within the declared size and was delivered in full; `next`
\* and `data` are then the end of the chain and the chunks in call order,
\* `calls` how many Appends the chain has, `size` the declared size.
NoChain == [ok |-> FALSE, next |-> 0, data |-> <<>>, calls |-> 0, size |-> 0]
NewChain(size) ==
  [ok |-> TRUE, next |-> 0, data |-> <<>>, calls |-> 0, size |-> size]

call_chained(h, upload_offset, chunk) ==
  IF /\ h.ok
     /\ h.next < h.size
     /\ upload_offset = h.next
     /\ upload_offset + Len(chunk) <= h.size
  THEN [h EXCEPT !.next = upload_offset + Len(chunk),
                 !.data = h.data \o chunk, !.calls = h.calls + 1]
  ELSE NoChain

Sent(c, id, upload_offset, chunk) ==
  IF id \in DOMAIN c
  THEN [c EXCEPT ![id] = call_chained(@, upload_offset, chunk)]
  ELSE c

Broken(c, id) == IF id \in DOMAIN c THEN [c EXCEPT ![id] = NoChain] ELSE c

Track(c) == chain' = IF serial THEN c ELSE chain

\* ------------------------------------------------------------------- Init
\* the reconciler is not running; the cloud backend is not configured
NoRecon == [pc |-> "done", todo |-> {}, inserted |-> 0, deleted |-> 0,
            runs |-> 0, at |-> -1, snapshot |-> <<>>]
CloudUploads == 1..MaxUploads   \* the files a browser offers to init_upload
\* month: _usage["month"]; wall_month: what time.strftime("%Y-%m") returns
\* now, as a month number; egress: the calls of prepare_download that hold a
\* slot; bucket[u]: the object of upload u is stored in the bucket
NoCloud == [client |-> FALSE, requests_class_a |-> 0, active_uploads |-> 0,
            strategy |-> [u \in CloudUploads |-> "none"],
            file_size |-> [u \in CloudUploads |-> 0],
            month |-> 0, wall_month |-> 0, egress |-> 0,
            requests_class_b |-> 0,
            bucket |-> [u \in CloudUploads |-> FALSE]]

EmptyLocal ==
  /\ router \in {"tus", "api"}
  /\ next_uuid = 0
  /\ tus_uploads = <<>>
  /\ tus_temp = <<>>
  /\ tus_info = <<>>
  /\ tus_data = <<>>
  /\ user_files = <<>>
  /\ inode_data = <<>>
  /\ files = <<>>
  /\ hash_map = <<>>
  /\ pc = [p \in Procs |-> "idle"]
  /\ loc = [p \in Procs |-> NoLoc]
  /\ resp = NoResp
  /\ requests = 0
  /\ origin = <<>>
  /\ chain = <<>>
  /\ deduped = {}
  /\ now = 0
  /\ recon = NoRecon

Empty == EmptyLocal /\ r2 = NoCloud

Init == Empty /\ serial = FALSE
InitSeq == Empty /\ serial = TRUE

\* stages in which a handler has not yet sent its response
Handling == {"patch_body", "patch_written", "api_body", "api_written",
             "api_check", "api_fin_name", "api_fin_rename", "api_fin_cleanup",
             "concat_create", "concat_copy", "concat_cleanup"}

\* a handler is entered: one more request has been received
Receive(p) ==
  /\ pc[p] = "idle"
  /\ requests < MaxRequests
  /\ requests' = requests + 1
  /\ serial => \A q \in Procs : pc[q] \notin Handling
  /\ recon.pc = "done"   \* lifespan serves requests after the reconciliation

\* a step inside a handler or a background task: no response, no new request
Silent == resp' = NoResp /\ UNCHANGED requests

Reply(p, r) ==
  /\ resp' = r
  /\ pc' = [pc EXCEPT ![p] = "idle"]
  /\ loc' = [loc EXCEPT ![p] = NoLoc]

\* ------------------------------------------- routes/tus.py: POST (Create)
create_tus_upload(p, meta, upload_length) ==
  /\ UNCHANGED legacy
  /\ router = "tus"
  /\ Receive(p)
  /\ LET user == get_user_by_password(meta.password)
         fingerprint == calculate_fingerprint(meta.filename, upload_length,
                                              meta.lastModified)
         existing == get_upload_by_fingerprint(tus_uploads, fingerprint, user)
         upload_id == next_uuid + 1
         R(status, id, offset) ==
           Response("create", status, id, offset, meta, upload_length, 0)
     IN IF meta.password = "" \/ user = NoUser
        THEN /\ Reply(p, R(401, 0, 0))
             /\ UNCHANGED <<next_uuid, store, chain>>
        ELSE IF existing # 0
        THEN /\ Reply(p, R(200, existing, tus_uploads[existing].offset))
             /\ UNCHANGED <<next_uuid, store, chain>>
        ELSE /\ next_uuid < MaxUploads
             /\ next_uuid' = upload_id
             /\ tus_temp' = Put(tus_temp, upload_id, <<>>)
             /\ IF insert_allowed(tus_uploads, upload_id, fingerprint, user)
                THEN /\ tus_uploads' =
                          create_upload(tus_uploads, upload_id, fingerprint,
                                        user, upload_length, meta.filename,
                                        meta)
                     /\ Track(Put(chain, upload_id, NewChain(upload_length)))
                     /\ Reply(p, R(201, upload_id, 0))
                ELSE \* sqlite3.IntegrityError -> except Exception -> 500
                     /\ UNCHANGED <<tus_uploads, chain>>
                     /\ Reply(p, R(500, 0, 0))
  /\ UNCHANGED <<router, serial, outside, owner_storage>>

\* ------------------------------------------ routes/tus.py: PATCH (Append)
\* a comparison that only rejects offsets ahead of the stored one
offset_mismatch_ahead(stored, declared) == declared > stored

\* the comparison of tus.py line 245 and of TusService lines 122 and 141
offset_mismatch(stored, declared) == declared # stored

\* lines 240-256: load the session, compare the offsets, look for the file
patch_begin(p, upload_id, upload_offset, chunk) ==
  /\ UNCHANGED legacy
  /\ router = "tus"
  /\ Receive(p)
  /\ LET R(status) ==
           Response("patch", status, upload_id, 0, NoMeta, 0, upload_offset)
     IN IF upload_id \notin DOMAIN tus_uploads
        THEN Reply(p, R(404))
        ELSE IF offset_mismatch(tus_uploads[upload_id].offset, upload_offset)
        THEN Reply(p, R(409))
        ELSE IF upload_id \notin DOMAIN tus_temp
        THEN Reply(p, R(404))
        ELSE /\ pc' = [pc EXCEPT ![p] = "patch_body"]
             /\ loc' = [loc EXCEPT ![p] =
                  [NoLoc EXCEPT !.id = upload_id, !.chunk = chunk,
                     !.upload_offset = upload_offset,
                     !.current_offset = tus_uploads[upload_id].offset,
                     !.size = tus_uploads[upload_id].size,
                     !.username = tus_uploads[upload_id].user_id,
                     !.filename = tus_uploads[upload_id].filename]]
             /\ resp' = NoResp
  /\ Track(Sent(chain, upload_id, upload_offset, chunk))
  /\ UNCHANGED <<router, serial, outside, next_uuid, store, owner_storage>>

\* the bytes open(file_path, 'wb') + write(chunk) would leave
append_bytes_truncating(temp, upload_id, chunk) == Put(temp, upload_id, chunk)

\* the bytes open(file_path, 'ab') + write(chunk) leave in the backing file
append_bytes(temp, upload_id, chunk) ==
  Put(temp, upload_id,
      (IF upload_id \in DOMAIN temp THEN temp[upload_id] ELSE <<>>) \o chunk)

\* the check of lines 267-269 ("Check strict size")
exceeds_total_size(current_offset, chunk_size, size) ==
  current_offset + chunk_size > size

\* lines 258-277: the body has arrived; size check and physical write
patch_write(p) ==
  /\ UNCHANGED legacy
  /\ router = "tus"
  /\ pc[p] = "patch_body"
  /\ LET l == loc[p]
     IN IF exceeds_total_size(l.current_offset, Len(l.chunk), l.size)
        THEN /\ Reply(p, Response("patch", 400, l.id, 0, NoMeta, 0,
                                  l.current_offset))
             /\ UNCHANGED tus_temp
        ELSE /\ tus_temp' = append_bytes(tus_temp, l.id, l.chunk)
             /\ pc' = [pc EXCEPT ![p] = "patch_written"]
             /\ resp' = NoResp
             /\ UNCHANGED loc
  /\ UNCHANGED <<router, serial, outside, chain, next_uuid, tus_uploads, owner_storage, requests>>

\* lines 259-263: ClientDisconnect while the body is read
patch_disconnect(p) ==
  /\ UNCHANGED legacy
  /\ router = "tus"
  /\ pc[p] = "patch_body"
  /\ Reply(p, Response("patch", 499, loc[p].id, 0, NoMeta, 0,
                       loc[p].current_offset))
  /\ Track(Broken(chain, loc[p].id))
  /\ UNCHANGED <<router, serial, outside, next_uuid, store, owner_storage, requests>>

\* lines 279-298: store the new offset, complete, schedule the finalizer
patch_commit(p) ==
  /\ UNCHANGED legacy
  /\ router = "tus"
  /\ pc[p] = "patch_written"
  /\ LET l == loc[p]
         new_offset == l.current_offset + Len(l.chunk)
         updated == update_offset(tus_uploads, l.id, new_offset)
     IN /\ resp' = Response("patch", 204, l.id, new_offset, NoMeta, 0,
                            l.current_offset)
        /\ IF new_offset = l.size
           THEN /\ tus_uploads' = mark_completed(updated, l.id)
                /\ pc' = [pc EXCEPT ![p] = "fin_begin"]
                /\ UNCHANGED loc
           ELSE /\ tus_uploads' = updated
                /\ pc' = [pc EXCEPT ![p] = "idle"]
                /\ loc' = [loc EXCEPT ![p] = NoLoc]
  /\ UNCHANGED <<router, serial, outside, chain, next_uuid, tus_temp, owner_storage, requests>>

\* ----------------------------------------- routes/tus.py: DELETE (Cancel)
cancel_tus_upload(p, upload_id) ==
  /\ UNCHANGED legacy
  /\ router = "tus"
  /\ Receive(p)
  /\ IF upload_id \notin DOMAIN tus_uploads
     THEN /\ Reply(p, Response("delete", 404, upload_id, 0, NoMeta, 0, 0))
          /\ UNCHANGED store
     ELSE /\ tus_uploads' = mark_aborted(tus_uploads, upload_id)
          /\ tus_temp' = Remove(tus_temp, upload_id)
          /\ Reply(p, Response("delete", 204, upload_id, 0, NoMeta, 0, 0))
  /\ Track(Broken(chain, upload_id))
  /\ UNCHANGED <<router, serial, outside, next_uuid, owner_storage>>

\* ---------------------------------------------- FileService / DedupService
numbered(filename, counter) ==
  <<filename[1] \o "_" \o ToString(counter), filename[2]>>

\* the loop of import_file, lines 391-397: first name not taken in the folder
RECURSIVE first_free_name(_, _, _, _)
first_free_name(uf, username, filename, counter) ==
  LET unique_name == IF counter = 0 THEN filename
                     ELSE numbered(filename, counter)
  IN IF <<username, unique_name>> \in DOMAIN uf
     THEN first_free_name(uf, username, filename, counter + 1)
     ELSE unique_name

unique_name_for(uf, username, filename) ==
  first_free_name(uf, username, filename, 0)

Leave(p) ==
  /\ pc' = [pc EXCEPT ![p] = "idle"]
  /\ loc' = [loc EXCEPT ![p] = NoLoc]

\* finalize_upload_local lines 77-89 and import_file up to its rename
finalize_begin(p) ==
  /\ UNCHANGED legacy
  /\ pc[p] = "fin_begin"
  /\ IF loc[p].id \notin DOMAIN tus_temp
     THEN Leave(p)
     ELSE /\ pc' = [pc EXCEPT ![p] = "fin_rename"]
          /\ loc' = [loc EXCEPT ![p].name =
                 unique_name_for(user_files, loc[p].username, loc[p].filename)]
  /\ Silent
  /\ UNCHANGED <<router, serial, outside, chain, next_uuid, store, owner_storage>>

\* import_file line 402: os.rename(source_path, target_path)
finalize_rename(p) ==
  /\ UNCHANGED legacy
  /\ pc[p] = "fin_rename"
  /\ LET l == loc[p]
         target == <<l.username, l.name>>
     IN IF l.id \notin DOMAIN tus_temp
        THEN \* FileNotFoundError: logged, import_file returns None
             /\ Leave(p)
             /\ UNCHANGED <<tus_temp, user_files, inode_data, origin, deduped>>
        ELSE /\ user_files' = Put(user_files, target, FreshInode(inode_data))
             /\ deduped' = deduped \ {target}
             /\ inode_data' = LinkedOnly(user_files',
                                Put(inode_data, FreshInode(inode_data),
                                    tus_temp[l.id]))
             /\ origin' = Put(origin, target, l.id)
             /\ tus_temp' = Remove(tus_temp, l.id)
             /\ pc' = [pc EXCEPT ![p] = "fin_register"]
             /\ UNCHANGED loc
  /\ Silent
  /\ UNCHANGED <<router, serial, outside, chain, next_uuid, tus_uploads, files, hash_map>>

\* import_file lines 403-408: stat and _register_file (UNIQUE(username, filename))
finalize_register(p) ==
  /\ UNCHANGED legacy
  /\ pc[p] = "fin_register"
  /\ LET l == loc[p]
         target == <<l.username, l.name>>
     IN IF target \notin DOMAIN user_files \/ target \in DOMAIN files
        THEN \* stat or the INSERT raises: logged, import_file returns None
             /\ Leave(p)
             /\ UNCHANGED files
        ELSE /\ files' = Put(files, target, Len(inode_data[user_files[target]]))
             /\ pc' = [pc EXCEPT ![p] = "fin_hash"]
             /\ UNCHANGED loc
  /\ Silent
  /\ UNCHANGED <<router, serial, outside, chain, next_uuid, store, user_files, inode_data,
                 hash_map, origin, deduped>>

\* DedupService.deduplicate line 54: calculate_hash in the executor
dedup_hash(p) ==
  /\ UNCHANGED legacy
  /\ pc[p] = "fin_hash"
  /\ LET target == <<loc[p].username, loc[p].name>>
     IN IF target \notin DOMAIN user_files
        THEN Leave(p)
        ELSE /\ pc' = [pc EXCEPT ![p] = "fin_dedup"]
             /\ loc' = [loc EXCEPT ![p].hash = inode_data[user_files[target]]]
  /\ Silent
  /\ UNCHANGED <<router, serial, outside, chain, next_uuid, store, owner_storage>>

\* DedupService.deduplicate lines 56-87
dedup_link(p) ==
  /\ UNCHANGED legacy
  /\ pc[p] = "fin_dedup"
  /\ LET l == loc[p]
         file_path == <<l.username, l.name>>
         index_it == /\ hash_map' = Put(hash_map, l.hash, file_path)
                     /\ UNCHANGED <<user_files, inode_data>>
     IN /\ IF l.hash \in DOMAIN hash_map
           THEN LET existing_path == hash_map[l.hash]
                IN IF existing_path \in DOMAIN user_files
                   THEN IF \/ file_path \notin DOMAIN user_files
                           \/ user_files[file_path] = user_files[existing_path]
                        THEN UNCHANGED <<user_files, inode_data, hash_map>>
                        ELSE /\ user_files' = Put(user_files, file_path,
                                                  user_files[existing_path])
                             /\ inode_data' = LinkedOnly(user_files', inode_data)
                             /\ UNCHANGED hash_map
                   ELSE index_it
           ELSE index_it
        /\ deduped' = IF /\ file_path \in DOMAIN user_files
                         /\ inode_data[user_files[file_path]] = l.hash
                      THEN deduped \cup {file_path}
                      ELSE deduped
  /\ Leave(p)
  /\ Silent
  /\ UNCHANGED <<router, serial, outside, chain, next_uuid, store, files, origin>>

\* ------------------------------------- routes/api.py + TusService (legacy)
\* tus_create / TusService.create_upload: <id>.info and an empty <id>.bin.
\* The id is unknown to every client until the response, so the two file
\* writes are taken as one step.
tus_create(p, meta, upload_length) ==
  /\ router = "api"
  /\ Receive(p)
  /\ LET user == get_user_by_password(meta.password)
         upload_id == next_uuid + 1
         R(status, id) ==
           Response("create", status, id, 0, meta, upload_length, 0)
     IN /\ next_uuid < MaxUploads
        /\ next_uuid' = upload_id
        /\ IF meta.password = ""
           THEN \* ValueError -> 400
                /\ Reply(p, R(400, 0))
                /\ UNCHANGED <<legacy, chain>>
           ELSE IF user = NoUser
           THEN \* PermissionError -> 401
                /\ Reply(p, R(401, 0))
                /\ UNCHANGED <<legacy, chain>>
           ELSE /\ tus_info' = Put(tus_info, upload_id,
                       [length |-> upload_length, offset |-> 0,
                        metadata |-> meta])
                /\ tus_data' = Put(tus_data, upload_id, <<>>)
                /\ Track(Put(chain, upload_id, NewChain(upload_length)))
                /\ Reply(p, R(201, upload_id))
  /\ UNCHANGED <<router, serial, outside, store, owner_storage>>

\* tus_patch up to the offset check of patch_upload_stream (lines 137-142)
tus_patch(p, upload_id, upload_offset, chunk) ==
  /\ router = "api"
  /\ Receive(p)
  /\ LET R(status) ==
           Response("patch", status, upload_id, 0, NoMeta, 0, upload_offset)
     IN IF upload_id \notin DOMAIN tus_info
        THEN Reply(p, R(409))
        ELSE IF offset_mismatch(tus_info[upload_id].offset, upload_offset)
        THEN Reply(p, R(409))
        ELSE /\ pc' = [pc EXCEPT ![p] = "api_body"]
             /\ loc' = [loc EXCEPT ![p] =
                  [NoLoc EXCEPT !.id = upload_id, !.chunk = chunk,
                     !.upload_offset = upload_offset,
                     !.current_offset = tus_info[upload_id].offset,
                     !.size = tus_info[upload_id].length,
                     !.meta = tus_info[upload_id].metadata]]
             /\ resp' = NoResp
  /\ Track(Sent(chain, upload_id, upload_offset, chunk))
  /\ UNCHANGED <<router, serial, outside, next_uuid, store, legacy, owner_storage>>

\* patch_upload_stream lines 144-148: open(<id>.bin, 'ab') and write the body
patch_upload_stream_write(p) ==
  /\ router = "api"
  /\ pc[p] = "api_body"
  /\ tus_data' = append_bytes(tus_data, loc[p].id, loc[p].chunk)
  /\ pc' = [pc EXCEPT ![p] = "api_written"]
  /\ Silent
  /\ UNCHANGED <<router, serial, outside, chain, next_uuid, store, tus_info, owner_storage, loc>>

\* patch_upload_stream lines 144-148 when request.stream() raises
\* ClientDisconnect after k bytes of the body, k short of the whole chunk: the
\* bytes that arrived are in <id>.bin, <id>.info keeps the old offset, and the
\* exception, not a ValueError, ends the handler with 500
tus_patch_disconnect(p, k) ==
  /\ router = "api"
  /\ pc[p] = "api_body"
  /\ k = 0 \/ k < Len(loc[p].chunk)
  /\ tus_data' = append_bytes(tus_data, loc[p].id, SubSeq(loc[p].chunk, 1, k))
  /\ Reply(p, Response("patch", 500, loc[p].id, 0, NoMeta, 0,
                       loc[p].current_offset))
  /\ Track(Broken(chain, loc[p].id))
  /\ UNCHANGED <<router, serial, outside, next_uuid, store, tus_info, owner_storage, requests>>

\* patch_upload_stream lines 150-154: rewrite <id>.info from the snapshot read
\* before the write
patch_upload_stream_commit(p) ==
  /\ router = "api"
  /\ pc[p] = "api_written"
  /\ LET l == loc[p]
     IN tus_info' = Put(tus_info, l.id,
                        [length |-> l.size,
                         offset |-> l.current_offset + Len(l.chunk),
                         metadata |-> l.meta])
  /\ pc' = [pc EXCEPT ![p] = "api_check"]
  /\ Silent
  /\ UNCHANGED <<router, serial, outside, chain, next_uuid, store, tus_data, owner_storage, loc>>

\* tus_patch lines 590-601: read <id>.info again and decide whether to finalize
tus_patch_check(p) ==
  /\ router = "api"
  /\ pc[p] = "api_check"
  /\ LET l == loc[p]
     IN IF /\ l.id \in DOMAIN tus_info
           /\ tus_info[l.id].offset = tus_info[l.id].length
        THEN /\ pc' = [pc EXCEPT ![p] = "api_fin_name"]
             /\ loc' = [loc EXCEPT ![p].username =
                          get_user_by_password(tus_info[l.id].metadata.password)]
             /\ Silent
        ELSE /\ Reply(p, Response("patch", 200, l.id,
                                  l.current_offset + Len(l.chunk), NoMeta, 0,
                                  l.current_offset))
             /\ UNCHANGED requests
  /\ UNCHANGED <<router, serial, outside, chain, next_uuid, store, legacy, owner_storage>>

\* finalize_upload is called by tus_patch (line 603) and, for a final
\* concatenation, by tus_create (line 506), whose try block turns a ValueError
\* into 400; the answer of l's route with this status
Answer(l, patch_status, create_status) ==
  IF l.partial_ids = <<>>
  THEN Response("patch", patch_status, l.id,
                IF patch_status = 200 THEN l.current_offset + Len(l.chunk) ELSE 0,
                NoMeta, 0, l.current_offset)
  ELSE [Response("create", create_status, l.id, 0, l.meta, l.size, 0)
          EXCEPT !.parts = l.partial_ids]

\* TusService.finalize_upload lines 166-179: read <id>.info, pick the name
finalize_upload_name(p) ==
  /\ router = "api"
  /\ pc[p] = "api_fin_name"
  /\ LET l == loc[p]
     IN IF l.id \notin DOMAIN tus_info
        THEN \* ValueError("Upload not found")
             /\ Reply(p, Answer(l, 500, 400))
             /\ UNCHANGED requests
        ELSE /\ pc' = [pc EXCEPT ![p] = "api_fin_rename"]
             /\ loc' = [loc EXCEPT ![p].name =
                   unique_name_for(user_files, l.username,
                                   tus_info[l.id].metadata.filename)]
             /\ Silent
  /\ UNCHANGED <<router, serial, outside, chain, next_uuid, store, legacy, owner_storage>>

\* TusService.finalize_upload line 182: rename <id>.bin into the user folder
finalize_upload_rename(p) ==
  /\ router = "api"
  /\ pc[p] = "api_fin_rename"
  /\ LET l == loc[p]
         target == <<l.username, l.name>>
     IN IF l.id \notin DOMAIN tus_data
        THEN /\ Reply(p, Answer(l, 500, 500))
             /\ UNCHANGED <<requests, tus_data, user_files, inode_data, origin,
                            deduped>>
        ELSE /\ user_files' = Put(user_files, target, FreshInode(inode_data))
             /\ deduped' = deduped \ {target}
             /\ inode_data' = LinkedOnly(user_files',
                                Put(inode_data, FreshInode(inode_data),
                                    tus_data[l.id]))
             /\ origin' = Put(origin, target, l.id)
             /\ tus_data' = Remove(tus_data, l.id)
             /\ pc' = [pc EXCEPT ![p] = "api_fin_cleanup"]
             /\ UNCHANGED loc
             /\ Silent
  /\ UNCHANGED <<router, serial, outside, chain, next_uuid, store, tus_info, files, hash_map>>

\* TusService.finalize_upload line 185 and the response of tus_patch
finalize_upload_cleanup(p) ==
  /\ router = "api"
  /\ pc[p] = "api_fin_cleanup"
  /\ LET l == loc[p]
     IN IF l.id \notin DOMAIN tus_info
        THEN /\ Reply(p, Answer(l, 500, 500))
             /\ UNCHANGED tus_info
        ELSE /\ tus_info' = Remove(tus_info, l.id)
             /\ Reply(p, Answer(l, 200, 201))
  /\ UNCHANGED <<router, serial, outside, chain, next_uuid, store, tus_data, owner_storage, requests>>

\* ------------------- routes/api.py: POST with "Upload-Concat: final;..."
\* the lists of partial upload ids a final Create names
PartialLists == UNION {[1..n -> UploadIds] : n \in 1..2}

RECURSIVE total_of(_, _)
total_of(info, ids) ==
  IF ids = <<>> THEN 0 ELSE info[Head(ids)].length + total_of(info, Tail(ids))

\* the bytes the copy loop of concat_uploads has written when it ends, or
\* when open() of a missing source raises
RECURSIVE concat_data(_, _)
concat_data(data, ids) ==
  IF ids = <<>> \/ Head(ids) \notin DOMAIN data THEN <<>>
  ELSE data[Head(ids)] \o concat_data(data, Tail(ids))

\* the cleanup loop of concat_uploads: <pid>.info and <pid>.bin are removed
\* in turn until os.remove of a missing file raises
RECURSIVE remove_partials(_, _, _)
remove_partials(info, data, ids) ==
  IF ids = <<>> THEN [info |-> info, data |-> data, ok |-> TRUE]
  ELSE IF Head(ids) \notin DOMAIN info
  THEN [info |-> info, data |-> data, ok |-> FALSE]
  ELSE IF Head(ids) \notin DOMAIN data
  THEN [info |-> Remove(info, Head(ids)), data |-> data, ok |-> FALSE]
  ELSE remove_partials(Remove(info, Head(ids)), Remove(data, Head(ids)),
                       Tail(ids))

\* a partial upload concat_uploads accepts (lines 201-205)
is_complete(info, pid) ==
  pid \in DOMAIN info /\ info[pid].offset = info[pid].length

\* tus_create lines 476-490 and concat_uploads lines 198-206: the id is drawn,
\* every partial upload has to exist with offset = length
tus_create_final(p, meta, partial_ids) ==
  /\ router = "api"
  /\ Receive(p)
  /\ next_uuid < MaxUploads
  /\ next_uuid' = next_uuid + 1
  /\ IF \A i \in 1..Len(partial_ids) : is_complete(tus_info, partial_ids[i])
     THEN /\ pc' = [pc EXCEPT ![p] = "concat_create"]
          /\ loc' = [loc EXCEPT ![p] =
                [NoLoc EXCEPT !.id = next_uuid + 1, !.meta = meta,
                   !.partial_ids = partial_ids,
                   !.size = total_of(tus_info, partial_ids)]]
          /\ resp' = NoResp
     ELSE \* ValueError -> 400
          Reply(p, [Response("create", 400, 0, 0, meta, 0, 0)
                      EXCEPT !.parts = partial_ids])
  /\ UNCHANGED <<serial, store, legacy, owner_storage, chain, outside>>
  /\ UNCHANGED router

\* concat_uploads line 211: create_upload(target_id, total_length, metadata)
concat_uploads_create(p) ==
  /\ router = "api"
  /\ pc[p] = "concat_create"
  /\ LET l == loc[p]
     IN IF l.meta.password = ""
        THEN /\ Reply(p, Answer(l, 400, 400))
             /\ UNCHANGED legacy
        ELSE IF get_user_by_password(l.meta.password) = NoUser
        THEN /\ Reply(p, Answer(l, 401, 401))
             /\ UNCHANGED legacy
        ELSE /\ tus_info' = Put(tus_info, l.id,
                    [length |-> l.size, offset |-> 0, metadata |-> l.meta])
             /\ tus_data' = Put(tus_data, l.id, <<>>)
             /\ pc' = [pc EXCEPT ![p] = "concat_copy"]
             /\ resp' = NoResp
             /\ UNCHANGED loc
  /\ UNCHANGED <<router, serial, outside, chain, next_uuid, store, owner_storage, requests>>

\* concat_uploads lines 213-230: the sources are streamed into <target>.bin
\* in the order given, then <target>.info gets offset = total_length
concat_uploads_copy(p) ==
  /\ router = "api"
  /\ pc[p] = "concat_copy"
  /\ LET l == loc[p]
         ids == l.partial_ids
     IN /\ tus_data' = Put(tus_data, l.id, concat_data(tus_data, ids))
        /\ IF /\ \A i \in 1..Len(ids) : ids[i] \in DOMAIN tus_data
              /\ l.id \in DOMAIN tus_info
           THEN /\ tus_info' = [tus_info EXCEPT ![l.id].offset = l.size]
                /\ pc' = [pc EXCEPT ![p] = "concat_cleanup"]
                /\ resp' = NoResp
                /\ UNCHANGED loc
           ELSE \* FileNotFoundError (or TypeError on a missing info) -> 500
                /\ UNCHANGED tus_info
                /\ Reply(p, Answer(l, 500, 500))
  /\ UNCHANGED <<router, serial, outside, chain, next_uuid, store, owner_storage, requests>>

\* concat_uploads lines 232-235, then tus_create lines 500-506: the partial
\* uploads are removed, the owner is looked up, finalize_upload is called
concat_uploads_cleanup(p) ==
  /\ router = "api"
  /\ pc[p] = "concat_cleanup"
  /\ LET l == loc[p]
         left == remove_partials(tus_info, tus_data, l.partial_ids)
     IN /\ tus_info' = left.info
        /\ tus_data' = left.data
        /\ IF left.ok /\ l.id \in DOMAIN left.info
           THEN /\ pc' = [pc EXCEPT ![p] = "api_fin_name"]
                /\ loc' = [loc EXCEPT ![p].username =
                             get_user_by_password(l.meta.password)]
                /\ resp' = NoResp
           ELSE Reply(p, Answer(l, 500, 500))
  /\ UNCHANGED <<router, serial, outside, chain, next_uuid, store, owner_storage, requests>>

InitConcat == Empty /\ router = "api" /\ serial = FALSE

NextConcat ==
  \/ \E p \in Procs, n \in Sizes :
       tus_create(p, [filename |-> FileA, password |-> "pw-alice",
                      lastModified |-> ""], n)
  \/ \E p \in Procs, id \in UploadIds, off \in Offsets, c \in Chunks :
       tus_patch(p, id, off, c)
  \/ \E p \in Procs : patch_upload_stream_write(p)
  \/ \E p \in Procs, k \in 0..(MaxChunk - 1) : tus_patch_disconnect(p, k)
  \/ \E p \in Procs : patch_upload_stream_commit(p)
  \/ \E p \in Procs : tus_patch_check(p)
  \/ \E p \in Procs : finalize_upload_name(p)
  \/ \E p \in Procs : finalize_upload_rename(p)
  \/ \E p \in Procs : finalize_upload_cleanup(p)
  \/ \E p \in Procs, meta \in Metas, ids \in PartialLists :
       tus_create_final(p, meta, ids)
  \/ \E p \in Procs : concat_uploads_create(p)
  \/ \E p \in Procs : concat_uploads_copy(p)
  \/ \E p \in Procs : concat_uploads_cleanup(p)

\* the TusService handlers with the concatenation extension
SpecConcat == InitConcat /\ [][NextConcat]_vars

\* ------------------------------------------- routes/tus.py: disk failures
\* a write that stores the offset although the physical write raised
patch_write_error_committing(p, k) ==
  /\ UNCHANGED legacy
  /\ router = "tus"
  /\ pc[p] = "patch_body"
  /\ k <= Len(loc[p].chunk)
  /\ ~exceeds_total_size(loc[p].current_offset, Len(loc[p].chunk), loc[p].size)
  /\ tus_temp' = append_bytes(tus_temp, loc[p].id, SubSeq(loc[p].chunk, 1, k))
  /\ tus_uploads' = update_offset(tus_uploads, loc[p].id, loc[p].current_offset + k)
  /\ Reply(p, Response("patch", 500, loc[p].id, 0, NoMeta, 0, loc[p].current_offset))
  /\ UNCHANGED <<router, serial, outside, chain, next_uuid, owner_storage, requests>>

\* lines 271-277: open(file_path, 'ab') or write(chunk) raises (disk full,
\* I/O error) after k bytes of the chunk reached the file; 500
patch_write_error(p, k) ==
  /\ UNCHANGED legacy
  /\ router = "tus"
  /\ pc[p] = "patch_body"
  /\ k <= Len(loc[p].chunk)
  /\ ~exceeds_total_size(loc[p].current_offset, Len(loc[p].chunk), loc[p].size)
  /\ tus_temp' = IF k = 0 THEN tus_temp
                 ELSE append_bytes(tus_temp, loc[p].id, SubSeq(loc[p].chunk, 1, k))
  /\ Reply(p, Response("patch", 500, loc[p].id, 0, NoMeta, 0, loc[p].current_offset))
  /\ UNCHANGED <<router, serial, outside, chain, next_uuid, tus_uploads, owner_storage, requests>>

\* import_file line 402: os.rename raises; `except Exception` (417-419)
\* logs and returns None, finalize_upload_local logs and returns
finalize_rename_error(p) ==
  /\ UNCHANGED legacy
  /\ pc[p] = "fin_rename"
  /\ loc[p].id \in DOMAIN tus_temp
  /\ Leave(p)
  /\ Silent
  /\ UNCHANGED <<router, serial, outside, chain, next_uuid, store, owner_storage>>

\* import_file lines 405-408: the INSERT of _register_file raises after the
\* rename; `except Exception` logs and returns None
finalize_register_error(p) ==
  /\ UNCHANGED legacy
  /\ pc[p] = "fin_register"
  /\ <<loc[p].username, loc[p].name>> \in DOMAIN user_files
  /\ Leave(p)
  /\ Silent
  /\ UNCHANGED <<router, serial, outside, chain, next_uuid, store, owner_storage>>

InitDisk == Empty /\ router = "tus" /\ serial = FALSE

NextDisk ==
  \/ \E p \in Procs, n \in Sizes :
       create_tus_upload(p, [filename |-> FileA, password |-> "pw-alice",
                             lastModified |-> ""], n)
  \/ \E p \in Procs, id \in UploadIds, off \in Offsets, c \in Chunks :
       patch_begin(p, id, off, c)
  \/ \E p \in Procs : patch_write(p)
  \/ \E p \in Procs, k \in 0..(MaxChunk - 1) : patch_write_error(p, k)
  \/ \E p \in Procs : patch_commit(p)
  \/ \E p \in Procs : finalize_begin(p)
  \/ \E p \in Procs : finalize_rename(p)
  \/ \E p \in Procs : finalize_rename_error(p)
  \/ \E p \in Procs : finalize_register(p)
  \/ \E p \in Procs : finalize_register_error(p)
  \/ \E p \in Procs : dedup_hash(p)
  \/ \E p \in Procs : dedup_link(p)

\* routes/tus.py on a disk and an index whose writes can fail
SpecDisk == InitDisk /\ [][NextDisk]_vars

\* ------------------------------------------------------------------- Next
Next ==
  \/ \E p \in Procs, meta \in Metas, n \in Sizes : create_tus_upload(p, meta, n)
  \/ \E p \in Procs, id \in UploadIds, off \in Offsets, c \in Chunks :
       patch_begin(p, id, off, c)
  \/ \E p \in Procs : patch_write(p)
  \/ \E p \in Procs : patch_disconnect(p)
  \/ \E p \in Procs : patch_commit(p)
  \/ \E p \in Procs, id \in UploadIds : cancel_tus_upload(p, id)
  \/ \E p \in Procs : finalize_begin(p)
  \/ \E p \in Procs : finalize_rename(p)
  \/ \E p \in Procs : finalize_register(p)
  \/ \E p \in Procs : dedup_hash(p)
  \/ \E p \in Procs : dedup_link(p)
  \/ \E p \in Procs, meta \in Metas, n \in Sizes : tus_create(p, meta, n)
  \/ \E p \in Procs, id \in UploadIds, off \in Offsets, c \in Chunks :
       tus_patch(p, id, off, c)
  \/ \E p \in Procs : patch_upload_stream_write(p)
  \/ \E p \in Procs, k \in 0..(MaxChunk - 1) : tus_patch_disconnect(p, k)
  \/ \E p \in Procs : patch_upload_stream_commit(p)
  \/ \E p \in Procs : tus_patch_check(p)
  \/ \E p \in Procs : finalize_upload_name(p)
  \/ \E p \in Procs : finalize_upload_rename(p)
  \/ \E p \in Procs : finalize_upload_cleanup(p)

Spec == Init /\ [][Next]_vars
\* the same program driven by a client that waits for every response
SpecSeq == InitSeq /\ [][Next]_vars

\* ------------------------------------------- stale-upload cleanup (Janitor)
\* `days=1` of cleanup_expired_uploads
RetentionDays == 1

\* TusMetadataStore.cleanup_old_uploads: the rows its DELETE leaves.  Nothing
\* in the sources calls it.
cleanup_old_uploads(tbl, days) ==
  [i \in {j \in DOMAIN tbl :
            ~(/\ tbl[j].status \in {"completed", "aborted"}
              /\ tbl[j].created_at < now - days)} |-> tbl[i]]

\* a day passes
tick ==
  /\ now < MaxDays
  /\ now' = now + 1
  /\ resp' = NoResp
  /\ UNCHANGED <<router, serial, next_uuid, store, legacy, owner_storage, chain,
                 pc, loc, requests, recon, r2>>

\* cleanup_expired_uploads, run by lifespan at startup and every 10 hours:
\* TusMetadataStore has no attribute cleanup_stale_uploads, so line 337 raises
\* AttributeError, and `except Exception` (352-353) logs "Cleanup error"
cleanup_expired_uploads ==
  /\ resp' = Response("sweep", 500, 0, 0, NoMeta, 0, 0)
  /\ UNCHANGED <<router, serial, next_uuid, store, legacy, owner_storage, chain,
                 pc, loc, requests, outside>>

InitJanitor == Empty /\ router = "tus" /\ serial = FALSE

Alice == [filename |-> FileA, password |-> "pw-alice", lastModified |-> ""]

NextJanitor ==
  \/ \E p \in Procs, n \in Sizes : create_tus_upload(p, Alice, n)
  \/ \E p \in Procs, id \in UploadIds, off \in Offsets, c \in Chunks :
       patch_begin(p, id, off, c)
  \/ \E p \in Procs : patch_write(p)
  \/ \E p \in Procs : patch_commit(p)
  \/ \E p \in Procs, id \in UploadIds : cancel_tus_upload(p, id)
  \/ \E p \in Procs : finalize_begin(p)
  \/ \E p \in Procs : finalize_rename(p)
  \/ \E p \in Procs : finalize_register(p)
  \/ \E p \in Procs : dedup_hash(p)
  \/ \E p \in Procs : dedup_link(p)
  \/ tick
  \/ cleanup_expired_uploads

\* routes/tus.py with the clock and the periodic cleanup
SpecJanitor == InitJanitor /\ [][NextJanitor]_vars

\* ------------------------------ POST /upload and POST /user/<name>/delete
Owners == {"alice", "bob"}
Contents == {<<"x">>, <<"y">>}
Names == {FileA, numbered(FileA, 1), numbered(FileA, 2)}

\* what these handlers and the reconciler never touch
tus_world == <<router, serial, next_uuid, store, legacy, chain, origin>>

\* upload_files line 295 and save_file lines 212-220: the body has been read,
\* the first free name in the user's folder is picked
save_file(p, username, filename, content) ==
  /\ Receive(p)
  /\ pc' = [pc EXCEPT ![p] = "save_write"]
  /\ loc' = [loc EXCEPT ![p] =
        [NoLoc EXCEPT !.username = username, !.filename = filename,
           !.chunk = content,
           !.name = unique_name_for(user_files, username, filename)]]
  /\ resp' = NoResp
  /\ UNCHANGED <<tus_world, outside, owner_storage>>

\* save_file lines 222-223: open(folder / unique_name, "wb") and write; a
\* file that exists by now is truncated in place, under all of its links
save_file_write(p) ==
  /\ pc[p] = "save_write"
  /\ LET l == loc[p]
         target == <<l.username, l.name>>
     IN IF target \in DOMAIN user_files
        THEN /\ inode_data' = [inode_data EXCEPT ![user_files[target]] = l.chunk]
             /\ UNCHANGED user_files
        ELSE /\ user_files' = Put(user_files, target, FreshInode(inode_data))
             /\ inode_data' = Put(inode_data, FreshInode(inode_data), l.chunk)
  /\ deduped' = deduped \ {<<loc[p].username, loc[p].name>>}
  /\ pc' = [pc EXCEPT ![p] = "save_register"]
  /\ Silent
  /\ UNCHANGED <<tus_world, outside, loc, files, hash_map>>

\* save_file lines 225-231: stat and _register_file (INSERT, commit); an
\* exception of either leaves the handler with 500, the file stays on disk
save_file_register(p) ==
  /\ pc[p] = "save_register"
  /\ LET l == loc[p]
         target == <<l.username, l.name>>
     IN IF target \notin DOMAIN user_files \/ target \in DOMAIN files
        THEN /\ Reply(p, Response("upload", 500, 0, 0, NoMeta, 0, 0))
             /\ UNCHANGED files
        ELSE /\ files' = Put(files, target, Len(inode_data[user_files[target]]))
             /\ pc' = [pc EXCEPT ![p] = "fin_hash"]
             /\ resp' = NoResp
             /\ UNCHANGED loc
  /\ UNCHANGED <<tus_world, outside, requests, user_files, inode_data, hash_map,
                 deduped>>

\* FileService.delete_file lines 258-263: the file is removed from the folder
delete_file(p, username, filename) ==
  /\ Receive(p)
  /\ LET filepath == <<username, filename>>
     IN IF filepath \in DOMAIN user_files
        THEN /\ user_files' = Remove(user_files, filepath)
             /\ inode_data' = LinkedOnly(user_files', inode_data)
             /\ pc' = [pc EXCEPT ![p] = "delete_found"]
        ELSE /\ UNCHANGED <<user_files, inode_data>>
             /\ pc' = [pc EXCEPT ![p] = "delete_stale"]
  /\ deduped' = deduped \ {<<username, filename>>}
  /\ loc' = [loc EXCEPT ![p] =
        [NoLoc EXCEPT !.username = username, !.filename = filename]]
  /\ resp' = NoResp
  /\ UNCHANGED <<tus_world, outside, files, hash_map>>

\* FileService._deregister_file (lines 264 and 267) and the answer of the route
delete_file_deregister(p) ==
  /\ pc[p] \in {"delete_found", "delete_stale"}
  /\ files' = Remove(files, <<loc[p].username, loc[p].filename>>)
  /\ Reply(p, Response("delete_file",
                       IF pc[p] = "delete_found" THEN 200 ELSE 404,
                       0, 0, NoMeta, 0, 0))
  /\ UNCHANGED <<tus_world, outside, requests, user_files, inode_data, hash_map,
                 deduped>>

\* the upload folder as the service finds it when it starts with a new
\* files.db and no file_index.txt: any of these files, each with its own inode
StartPaths == {<<"alice", FileA>>, <<"alice/docs", FileA>>}
StartInode(q) == IF q = <<"alice", FileA>> THEN 1 ELSE 2

InitFiles ==
  /\ router = "api"
  /\ serial = FALSE
  /\ next_uuid = 0
  /\ tus_uploads = <<>>
  /\ tus_temp = <<>>
  /\ tus_info = <<>>
  /\ tus_data = <<>>
  /\ \E S \in SUBSET StartPaths :
       /\ user_files = [q \in S |-> StartInode(q)]
       /\ inode_data = [i \in {StartInode(q) : q \in S} |-> <<"x">>]
  /\ files = <<>>
  /\ hash_map = <<>>
  /\ pc = [p \in Procs |-> "idle"]
  /\ loc = [p \in Procs |-> NoLoc]
  /\ resp = NoResp
  /\ requests = 0
  /\ origin = <<>>
  /\ chain = <<>>
  /\ deduped = {}
  /\ now = 0
  /\ recon = [NoRecon EXCEPT !.pc = "start", !.runs = 1]
  /\ r2 = NoCloud

\* ------------------------------------ FileService.reconcile_all_users
\* the user whose upload folder contains the directory
owner_of(dir) == IF dir = "alice/docs" THEN "alice" ELSE dir

\* _scan_disk_files_sync: os.walk(user_dir), every file of every directory
scan_disk_files(uf, username) == {q \in DOMAIN uf : owner_of(q[1]) = username}

\* `next(f for f in disk_files if f["filename"] == filename)`: os.walk lists
\* the files of a directory before those of its subdirectories
first_on_disk(uf, username, filename) ==
  IF <<username, filename>> \in DOMAIN uf THEN <<username, filename>>
  ELSE CHOOSE q \in scan_disk_files(uf, username) : q[2] = filename

\* app.py lifespan lines 24-31: the service starts (again), init_db, and the
\* reconciliation begins; no request is served before it has ended
lifespan ==
  /\ recon.pc \in {"done", "failed"}
  /\ recon.runs < MaxRuns
  /\ \A p \in Procs : pc[p] = "idle"
  /\ recon' = [recon EXCEPT !.pc = "start", !.runs = @ + 1,
                            !.inserted = 0, !.deleted = 0]
  /\ resp' = NoResp
  /\ UNCHANGED <<tus_world, owner_storage, pc, loc, requests, now, r2>>

\* lines 543-556: stats = 0, the directories under the upload root are listed
reconcile_all_users ==
  /\ recon.pc = "start"
  /\ recon' = [recon EXCEPT !.pc = "users", !.todo = Owners,
                            !.snapshot = files]
  /\ resp' = NoResp
  /\ UNCHANGED <<tus_world, owner_storage, pc, loc, requests, now, r2>>

\* a round that executes the INSERTs and leaves out the DELETEs
reconcile_user_insert_only(username) ==
  /\ recon.pc = "users"
  /\ username \in recon.todo
  /\ LET names == {q[2] : q \in scan_disk_files(user_files, username)}
         added == {<<username, n>> : n \in names} \ DOMAIN files
     IN /\ files' = [k \in DOMAIN files \cup added |->
                       IF k \in added THEN 1 ELSE files[k]]
        /\ recon' = [recon EXCEPT !.todo = @ \ {username},
                                  !.inserted = @ + Cardinality(added)]
  /\ resp' = NoResp
  /\ UNCHANGED <<tus_world, user_files, inode_data, hash_map, origin, deduped, pc, loc, requests, now, r2>>

\* lines 558-594, one round of the loop: scan, SELECT, the INSERTs of
\* disk - db and the DELETEs of db - disk, all keyed by the bare filename
reconcile_user(username) ==
  /\ recon.pc = "users"
  /\ username \in recon.todo
  /\ LET disk_files == scan_disk_files(user_files, username)
         db_filenames == {k[2] : k \in {r \in DOMAIN files : r[1] = username}}
         disk_filenames == {q[2] : q \in disk_files}
         to_insert == disk_filenames \ db_filenames
         to_delete == db_filenames \ disk_filenames
         kept == DOMAIN files \ {<<username, n>> : n \in to_delete}
         added == {<<username, n>> : n \in to_insert}
     IN /\ files' =
             [k \in kept \cup added |->
                IF k \in added
                THEN Len(inode_data[user_files[
                           first_on_disk(user_files, username, k[2])]])
                ELSE files[k]]
        /\ recon' = [recon EXCEPT
                       !.todo = @ \ {username},
                       !.inserted = @ + Cardinality(to_insert),
                       !.deleted = @ + Cardinality(to_delete)]
  /\ resp' = NoResp
  /\ UNCHANGED <<tus_world, user_files, inode_data, hash_map, origin, deduped,
                 pc, loc, requests, now, r2>>

\* lines 596-601: the loop has ended, commit, the stats are returned
reconcile_commit ==
  /\ recon.pc = "users"
  /\ recon.todo = {}
  /\ recon' = [recon EXCEPT !.pc = "done", !.at = requests,
                            !.snapshot = <<>>]
  /\ resp' = NoResp
  /\ UNCHANGED <<tus_world, owner_storage, pc, loc, requests, now, r2>>

\* an interruption after which the statements executed so far are committed
reconcile_interrupted_committing(username) ==
  /\ recon.pc = "users"
  /\ username \in recon.todo
  /\ LET names == {q[2] : q \in scan_disk_files(user_files, username)}
         added == {<<username, n>> : n \in names} \ DOMAIN files
     IN files' = [k \in DOMAIN files \cup added |->
                    IF k \in added THEN 1 ELSE files[k]]
  /\ recon' = [recon EXCEPT !.pc = "failed", !.todo = {}, !.snapshot = <<>>]
  /\ resp' = NoResp
  /\ UNCHANGED <<tus_world, user_files, inode_data, hash_map, origin, deduped, pc, loc, requests, now, r2>>

\* lines 558-594 raise, or the process is stopped, while the statements for
\* `username` are executed: db.commit() (596) is not reached, app.py line 32
\* propagates the exception, the startup fails and the process ends; the
\* open transaction of the files.db connection is rolled back
reconcile_interrupted(username) ==
  /\ recon.pc = "users"
  /\ username \in recon.todo
  /\ files' = recon.snapshot
  /\ recon' = [recon EXCEPT !.pc = "failed", !.todo = {}, !.snapshot = <<>>]
  /\ resp' = NoResp
  /\ UNCHANGED <<tus_world, user_files, inode_data, hash_map, origin, deduped, pc, loc, requests, now, r2>>

NextFiles ==
  \/ lifespan
  \/ reconcile_all_users
  \/ \E u \in Owners : reconcile_user(u)
  \/ \E u \in Owners : reconcile_interrupted(u)
  \/ reconcile_commit
  \/ \E p \in Procs, u \in Owners, c \in Contents : save_file(p, u, FileA, c)
  \/ \E p \in Procs : save_file_write(p)
  \/ \E p \in Procs : save_file_register(p)
  \/ \E p \in Procs : dedup_hash(p)
  \/ \E p \in Procs : dedup_link(p)
  \/ \E p \in Procs, u \in Owners, n \in Names : delete_file(p, u, n)
  \/ \E p \in Procs : delete_file_deregister(p)

\* uploads and deletions of whole files in the owners' folders
SpecFiles == InitFiles /\ [][NextFiles]_vars

\* ------------------------------------------- the reconciler on its own
\* the upload folder and files.db as a start of the service can find them:
\* files may have been uploaded, dropped in or removed while it was down
RecPaths == {<<"alice", FileA>>, <<"alice/docs", FileA>>,
             <<"alice", numbered(FileA, 1)>>, <<"bob", FileA>>}
RecRows == {<<"alice", FileA>>, <<"alice", numbered(FileA, 1)>>,
            <<"bob", FileA>>}
RecInode(q) ==
  IF q = <<"alice", FileA>> THEN 1
  ELSE IF q = <<"alice/docs", FileA>> THEN 2
  ELSE IF q = <<"bob", FileA>> THEN 3 ELSE 4

InitReconcile ==
  /\ router = "api"
  /\ serial = FALSE
  /\ next_uuid = 0
  /\ tus_uploads = <<>>
  /\ tus_temp = <<>>
  /\ tus_info = <<>>
  /\ tus_data = <<>>
  /\ \E S \in SUBSET RecPaths :
       /\ user_files = [q \in S |-> RecInode(q)]
       /\ inode_data = [i \in {RecInode(q) : q \in S} |-> <<"x">>]
  /\ \E R \in SUBSET RecRows : files = [k \in R |-> 1]
  /\ hash_map = <<>>
  /\ pc = [p \in Procs |-> "idle"]
  /\ loc = [p \in Procs |-> NoLoc]
  /\ resp = NoResp
  /\ requests = 0
  /\ origin = <<>>
  /\ chain = <<>>
  /\ deduped = {}
  /\ now = 0
  /\ recon = [NoRecon EXCEPT !.pc = "start", !.runs = 1]
  /\ r2 = NoCloud

NextReconcile ==
  \/ lifespan
  \/ reconcile_all_users
  \/ \E u \in Owners : reconcile_user(u)
  \/ \E u \in Owners : reconcile_interrupted(u)
  \/ reconcile_commit
  \/ cleanup_expired_uploads

\* app.py lifespan: the reconciliation and the cleanup of the startup
SpecReconcile == InitReconcile /\ [][NextReconcile]_vars

\* ============================================================== properties
\* the session table the serving implementation reads
Known(id) ==
  IF router = "tus" THEN id \in DOMAIN tus_uploads ELSE id \in DOMAIN tus_info
StoredOffset(id) ==
  IF router = "tus" THEN tus_uploads[id].offset ELSE tus_info[id].offset
DeclaredSize(id) ==
  IF router = "tus" THEN tus_uploads[id].size ELSE tus_info[id].length
HasBackingFile(id) ==
  IF router = "tus" THEN id \in DOMAIN tus_temp ELSE id \in DOMAIN tus_data
BackingFile(id) == IF router = "tus" THEN tus_temp[id] ELSE tus_data[id]

\* C1: an Append whose declared offset differs from the stored offset of its
\* session is answered 409 in the step that receives it, and that step changes
\* neither the session tables nor the backing files; an Append is let through
\* to its body only with the declared offset equal to the stored one.
C1_OffsetMismatchRejected ==
  [][/\ \A p \in Procs :
          (pc[p] = "idle" /\ pc'[p] \in {"patch_body", "api_body"})
            => loc'[p].upload_offset = StoredOffset(loc'[p].id)
     /\ ( /\ requests' = requests + 1
          /\ resp'.op = "patch"
          /\ Known(resp'.id)
          /\ resp'.declared # StoredOffset(resp'.id) )
            => (resp'.status = 409 /\ UNCHANGED <<store, legacy>>)
    ]_vars

\* a retry of Append(offset 0) after the offset has advanced is answered 409
C1_RetryRejected ==
  /\ resp.op = "patch"
  /\ resp.status = 409
  /\ resp.declared = 0
  /\ Known(resp.id)
  /\ StoredOffset(resp.id) > 0

InFlight(id) == \E p \in Procs : pc[p] \in Handling /\ loc[p].id = id

session_fingerprint(row) ==
  calculate_fingerprint(row.filename, row.size, row.metadata.lastModified)

\* the active sessions a Create with this metadata and length matches
ActiveMatches(meta, upload_length) ==
  {i \in DOMAIN tus_uploads :
     /\ tus_uploads[i].status = "active"
     /\ tus_uploads[i].user_id = get_user_by_password(meta.password)
     /\ session_fingerprint(tus_uploads[i]) =
          calculate_fingerprint(meta.filename, upload_length,
                                meta.lastModified)}

CreateAnswered == requests' = requests + 1 /\ resp'.op = "create"

\* C3: (routes/tus.py) a Create of a valid owner that matches an active
\* session by fingerprint and owner is answered 200 with that session's id and
\* stored offset and changes neither the session table nor the backing files
\* nor draws a new id; 200 is answered only to such a Create.
C3_ResumeActive ==
  [][(router = "tus" /\ CreateAnswered) =>
       LET match == ActiveMatches(resp'.meta, resp'.length)
           valid == get_user_by_password(resp'.meta.password) # NoUser
       IN /\ (valid /\ match # {}) =>
               /\ resp'.status = 200
               /\ resp'.id \in match
               /\ resp'.offset = tus_uploads[resp'.id].offset
               /\ UNCHANGED <<store, next_uuid>>
          /\ resp'.status = 200 => (valid /\ match # {})
    ]_vars

\* a Create has resumed a session that already holds bytes
C3_ResumedWithOffset ==
  /\ router = "tus"
  /\ resp.op = "create"
  /\ resp.status = 200
  /\ resp.offset > 0
  /\ resp.id \in DOMAIN tus_uploads
  /\ tus_uploads[resp.id].status = "active"

Imported(p) == pc[p] \in {"fin_hash", "fin_dedup"}

C7_CreateAuthenticated ==
  [][CreateAnswered =>
       IF get_user_by_password(resp'.meta.password) = NoUser
       THEN resp'.status = 401 /\ UNCHANGED <<store, legacy>>
       ELSE resp'.status \in {200, 201}
    ]_vars

\* C8: (routes/tus.py) a Create of a valid owner that matches no active
\* session - whatever completed or aborted sessions exist - is answered 201
\* with offset 0 and leaves a new active session at offset 0 with an empty
\* backing file.
C8_CreateWhenNoneActive ==
  [][( /\ router = "tus"
       /\ CreateAnswered
       /\ get_user_by_password(resp'.meta.password) # NoUser
       /\ ActiveMatches(resp'.meta, resp'.length) = {} )
     => /\ resp'.status = 201
        /\ resp'.offset = 0
        /\ resp'.id \notin DOMAIN tus_uploads
        /\ resp'.id \in DOMAIN tus_uploads'
        /\ tus_uploads'[resp'.id].status = "active"
        /\ tus_uploads'[resp'.id].offset = 0
        /\ resp'.id \in DOMAIN tus_temp'
        /\ tus_temp'[resp'.id] = <<>>
    ]_vars

Body == {"patch_body", "api_body"}
Written == {"patch_written", "api_written"}
\* handler p appends its chunk to the backing file in this step
Writes(p) == pc[p] \in Body /\ pc'[p] \in Written

Content(uf, data, q) == data[uf[q]]

\* C11: two files with identical bytes that have both been through
\* DedupService.deduplicate are links to one inode, and the step that deletes
\* a file leaves the content of every other path as it was.
C11_DedupedShareInode ==
  /\ [](\A a \in deduped : \A b \in deduped :
          ( /\ a \in DOMAIN user_files
            /\ b \in DOMAIN user_files
            /\ Content(user_files, inode_data, a)
                 = Content(user_files, inode_data, b) )
          => user_files[a] = user_files[b])
  /\ [][\A p \in Procs :
          (pc[p] = "idle" /\ pc'[p] = "delete_found") =>
            \A q \in DOMAIN user_files \ {<<loc'[p].username, loc'[p].filename>>} :
              /\ q \in DOMAIN user_files'
              /\ Content(user_files', inode_data', q)
                   = Content(user_files, inode_data, q)
       ]_vars

\* the reconciler handles this owner's directory in this step
Reconciles(u) ==
  /\ recon.pc = "users" /\ recon'.pc = "users"
  /\ u \in recon.todo /\ u \notin recon'.todo
IndexOf(f, u) == {k \in DOMAIN f : k[1] = u}

\* C12: a reconciliation of an owner's directory none of whose N files is
\* indexed inserts N entries and deletes none; a reconciliation that follows
\* a finished one with no request in between inserts and deletes nothing.
C12_ReconcileInsertsAll ==
  [][\A u \in Owners :
       Reconciles(u) =>
         LET N == Cardinality(scan_disk_files(user_files, u))
         IN /\ IndexOf(files, u) = {} =>
                 /\ recon'.inserted = recon.inserted + N
                 /\ recon'.deleted = recon.deleted
                 /\ Cardinality(IndexOf(files', u)) = N
            /\ recon.at = requests =>
                 /\ recon'.inserted = recon.inserted
                 /\ recon'.deleted = recon.deleted
                 /\ files' = files
    ]_vars

\* a session the Janitor has to remove: older than the retention window and
\* never imported
Stale(row) == now - row.created_at > RetentionDays /\ row.status # "imported"

\* C13: a sweep removes the record and the backing temp file of exactly the
\* sessions that are older than the retention window and not imported,
\* whatever their status, and leaves every other session and temp file alone.
C13_SweepRemovesStale ==
  [][resp'.op = "sweep" =>
       \A id \in DOMAIN tus_uploads :
         IF Stale(tus_uploads[id])
         THEN id \notin DOMAIN tus_uploads' /\ id \notin DOMAIN tus_temp'
         ELSE /\ id \in DOMAIN tus_uploads'
              /\ tus_uploads'[id] = tus_uploads[id]
              /\ id \in DOMAIN tus_temp => id \in DOMAIN tus_temp'
    ]_vars

\* the step in which handler p takes the stage `to` after the stage `from`
Moves(p, from, to) == pc[p] = from /\ pc'[p] = to

\* every referenced partial upload exists and has received all of its bytes
AllComplete(ids) == \A i \in 1..Len(ids) : is_complete(tus_info, ids[i])

\* the owner-storage files that were imported from upload id
ImportedFrom(id) == {q \in DOMAIN user_files' : origin'[q] = id}

FileSizes == {threshold - 1, threshold, threshold + 1}
Passwords == {"pw-alice", "wrong"}
local_world == <<router, next_uuid, store, legacy, owner_storage, pc, loc,
                 requests, serial, chain, now, recon>>

\* R2Service._check_quota lines 73-89
_check_quota(c, class_a, class_b) ==
  /\ c.requests_class_a + class_a < monthly_limit_class_a
  /\ c.requests_class_b + class_b < monthly_limit_class_b

\* R2Service.is_configured lines 122-127
is_configured(c) == c.client /\ _check_quota(c, 0, 0)

\* acquire_upload_slot without the comparison of line 135
acquire_upload_slot_unbounded(c) == _check_quota(c, 1, 0)

\* R2Service.acquire_upload_slot lines 129-138: TRUE when a slot is taken
acquire_upload_slot(c) ==
  _check_quota(c, 1, 0) /\ c.active_uploads < max_concurrent_uploads

\* R2Service.release_upload_slot lines 140-144
release_upload_slot(c) ==
  [c EXCEPT !.active_uploads = IF @ > 0 THEN @ - 1 ELSE @]

CloudResponse(op, status, u, password) ==
  Response(op, status, u, 0, [NoMeta EXCEPT !.password = password],
           r2.file_size[u], 0)

\* POST /upload/init: the strategy the browser is told to use
init_upload(u, password, file_size) ==
  /\ r2.strategy[u] = "none"
  /\ LET c == [r2 EXCEPT !.file_size[u] = file_size]
         answer(status) ==
           Response("init_upload", status, u, 0,
                    [NoMeta EXCEPT !.password = password], file_size, 0)
     IN IF get_user_by_password(password) = NoUser
        THEN /\ resp' = answer(401)
             /\ UNCHANGED r2
        ELSE /\ resp' = answer(200)
             /\ r2' = IF file_size < threshold \/ ~is_configured(c)
                         \/ ~acquire_upload_slot(c)
                      THEN [c EXCEPT !.strategy[u] = "tus"]
                      ELSE [c EXCEPT !.strategy[u] = "r2",
                                     !.active_uploads = @ + 1]
  /\ UNCHANGED local_world

\* POST /upload/r2/multipart, R2Service.create_multipart_upload lines 175-193;
\* cloud_ok = FALSE: the call to the bucket raises ClientError
create_multipart(u, password, cloud_ok) ==
  /\ r2.strategy[u] = "r2"
  /\ IF password = "" \/ get_user_by_password(password) = NoUser
     THEN /\ resp' = CloudResponse("create_multipart", 401, u, password)
          /\ UNCHANGED r2
     ELSE IF ~r2.client \/ ~_check_quota(r2, 1, 0) \/ ~cloud_ok
     THEN /\ resp' = CloudResponse("create_multipart", 500, u, password)
          /\ r2' = [r2 EXCEPT !.strategy[u] = "failed"]
     ELSE /\ resp' = CloudResponse("create_multipart", 200, u, password)
          /\ r2' = [r2 EXCEPT !.strategy[u] = "multipart",
                              !.requests_class_a = @ + 1]
  /\ UNCHANGED local_world

\* GET /upload/r2/multipart/{uploadId}: the presigned URL of one part
sign_part(u) ==
  /\ r2.strategy[u] = "multipart"
  /\ resp' = CloudResponse("sign_part", IF r2.client THEN 200 ELSE 503, u,
                           "pw-alice")
  /\ r2' = [r2 EXCEPT !.strategy[u] = "signed"]
  /\ UNCHANGED local_world

\* POST /upload/r2/multipart/{uploadId}/complete
complete_multipart(u, cloud_ok) ==
  /\ r2.strategy[u] = "signed"
  /\ IF ~r2.client
     THEN /\ resp' = CloudResponse("complete_multipart", 503, u, "pw-alice")
          /\ r2' = [r2 EXCEPT !.strategy[u] = "failed"]
     ELSE IF ~cloud_ok
     THEN /\ resp' = CloudResponse("complete_multipart", 500, u, "pw-alice")
          /\ r2' = [r2 EXCEPT !.strategy[u] = "failed"]
     ELSE /\ resp' = CloudResponse("complete_multipart", 200, u, "pw-alice")
          /\ r2' = [r2 EXCEPT !.strategy[u] = "download", !.bucket[u] = TRUE]
  /\ UNCHANGED local_world

\* the background task of complete_multipart, line 462: the slot is given
\* back before the download is handed to a worker thread
_handle_r2_download(u) ==
  /\ r2.strategy[u] = "download"
  /\ r2' = [release_upload_slot(r2) EXCEPT !.strategy[u] = "downloading"]
  /\ resp' = NoResp
  /\ UNCHANGED local_world

\* the bytes the browser sent to the bucket for upload u, and the path
\* complete_multipart derives from the object key (lines 424-438)
r2_bytes(u) == [i \in 1..u |-> "y"]
local_path(u) == <<"alice", FileA>>
cloud_local == <<router, next_uuid, store, legacy, files, hash_map, origin,
                 deduped, pc, loc, requests, serial, chain, now, recon>>

\* R2Service.delete_file lines 195-208; delete_ok = FALSE: the bucket raises
\* ClientError, which is logged
R2Service_delete_file(c, u, delete_ok) ==
  IF ~c.client \/ ~delete_ok
  THEN c
  ELSE [c EXCEPT !.bucket[u] = FALSE, !.requests_class_a = @ + 1]

\* R2Service.download_and_delete lines 231-272, run by _handle_r2_download
\* (api.py 464-471) in a worker thread; the answer stands for the audit
\* event: 200 FILE_UPLOAD_R2, 500 FILE_UPLOAD_R2_FAIL
download_and_delete(u, download_ok, delete_ok) ==
  /\ r2.strategy[u] = "downloading"
  /\ LET ended == [r2 EXCEPT !.strategy[u] = "done"]
         fresh == FreshInode(inode_data)
     IN IF ~r2.client \/ ~_check_quota(r2, 0, 1)
        THEN /\ r2' = ended
             /\ resp' = CloudResponse("download_and_delete", 500, u, "pw-alice")
             /\ UNCHANGED <<user_files, inode_data>>
        ELSE IF download_ok
        THEN /\ user_files' = Put(user_files, local_path(u), fresh)
             /\ inode_data' = LinkedOnly(user_files',
                                         Put(inode_data, fresh, r2_bytes(u)))
             /\ r2' = R2Service_delete_file(
                        [ended EXCEPT !.requests_class_b = @ + 1], u, delete_ok)
             /\ resp' = CloudResponse("download_and_delete", 200, u, "pw-alice")
        ELSE /\ r2' = R2Service_delete_file(ended, u, delete_ok)
             /\ resp' = CloudResponse("download_and_delete", 500, u, "pw-alice")
             /\ UNCHANGED <<user_files, inode_data>>
  /\ UNCHANGED cloud_local

\* R2Service.__init__: the client exists when the credentials are set, the
\* month's usage is read from r2_usage.json
InitCloud ==
  /\ EmptyLocal /\ router = "api" /\ serial = FALSE
  /\ \E client \in BOOLEAN, used \in 0..monthly_limit_class_a :
       r2 = [NoCloud EXCEPT !.client = client, !.requests_class_a = used]

NextCloud ==
  \/ \E u \in CloudUploads, password \in Passwords, n \in FileSizes :
       init_upload(u, password, n)
  \/ \E u \in CloudUploads, password \in Passwords \cup {""},
        cloud_ok \in BOOLEAN :
       create_multipart(u, password, cloud_ok)
  \/ \E u \in CloudUploads : sign_part(u)
  \/ \E u \in CloudUploads, cloud_ok \in BOOLEAN : complete_multipart(u, cloud_ok)
  \/ \E u \in CloudUploads : _handle_r2_download(u)
  \/ \E u \in CloudUploads, download_ok \in BOOLEAN, delete_ok \in BOOLEAN :
       download_and_delete(u, download_ok, delete_ok)

\* the upload routing between the local path and the bucket
SpecCloud == InitCloud /\ [][NextCloud]_vars

\* R2Service._load_usage lines 37-59: the counters of the usage file, or
\* zeroes when the file was written in another month
_load_usage(data, today) ==
  IF data.month # today
  THEN [month |-> today, requests_class_a |-> 0]
  ELSE data

\* GET /download of a file over the threshold (api.py 776-791) enters
\* R2Service.prepare_download (274-306) in a worker thread: object not in
\* the bucket yet, a slot is asked for; without one the file is served locally
prepare_download ==
  /\ is_configured(r2)
  /\ r2.egress < MaxDownloads
  /\ IF acquire_upload_slot(r2)
     THEN /\ r2' = [r2 EXCEPT !.active_uploads = @ + 1, !.egress = @ + 1]
          /\ resp' = NoResp
     ELSE /\ r2' = r2
          /\ resp' = Response("prepare_download", 200, 0, 0, NoMeta, 0, 0)
  /\ UNCHANGED local_world

\* prepare_download lines 294-306: the copy to the bucket ends, well (the
\* browser is redirected) or not, and `finally` gives the slot back
prepare_download_finally(cloud_ok) ==
  /\ r2.egress > 0
  /\ LET signed == cloud_ok /\ _check_quota(r2, 0, 1)
         c == [release_upload_slot(r2) EXCEPT !.egress = @ - 1]
     IN /\ r2' = IF signed THEN [c EXCEPT !.requests_class_b = @ + 1] ELSE c
        /\ resp' = Response("prepare_download", IF signed THEN 307 ELSE 200,
                            0, 0, NoMeta, 0, 0)
  /\ UNCHANGED local_world

\* the calendar month ends while the process keeps running
month_changes ==
  /\ r2.wall_month < MaxMonths
  /\ r2' = [r2 EXCEPT !.wall_month = @ + 1]
  /\ resp' = NoResp
  /\ UNCHANGED local_world

\* R2Service.__init__ lines 24-35 in month 0: the usage file was written in
\* this month or in the month before
InitQuota ==
  /\ EmptyLocal /\ router = "api" /\ serial = FALSE
  /\ \E client \in BOOLEAN, used \in 0..monthly_limit_class_a,
        written \in {-1, 0} :
       LET usage == _load_usage([month |-> written,
                                 requests_class_a |-> used], 0)
       IN r2 = [NoCloud EXCEPT !.client = client,
                               !.month = usage.month,
                               !.requests_class_a = usage.requests_class_a]

NextQuota ==
  \/ NextCloud
  \/ prepare_download
  \/ \E cloud_ok \in BOOLEAN : prepare_download_finally(cloud_ok)
  \/ month_changes

\* the bucket's slots and usage counters under uploads, accelerated
\* downloads and the calendar
SpecQuota == InitQuota /\ [][NextQuota]_vars

\* the service with the bucket configured and this month's usage below both
\* limits; alice's folder is empty or holds a.txt, uploaded earlier
InitTransit ==
  /\ router = "api" /\ serial = FALSE /\ next_uuid = 0
  /\ tus_uploads = <<>> /\ tus_temp = <<>>
  /\ tus_info = <<>> /\ tus_data = <<>>
  /\ \E S \in SUBSET {<<"alice", FileA>>} :
       /\ user_files = [q \in S |-> 1]
       /\ inode_data = [i \in {1 : q \in S} |-> <<"x">>]
       /\ files = [q \in S |-> 1]
  /\ hash_map = <<>>
  /\ pc = [p \in Procs |-> "idle"] /\ loc = [p \in Procs |-> NoLoc]
  /\ resp = NoResp /\ requests = 0
  /\ origin = <<>> /\ chain = <<>> /\ deduped = {}
  /\ now = 0 /\ recon = NoRecon
  /\ \E used_a \in 0..(monthly_limit_class_a - 1),
        used_b \in 0..(monthly_limit_class_b - 1) :
       r2 = [NoCloud EXCEPT !.client = TRUE,
                            !.requests_class_a = used_a,
                            !.requests_class_b = used_b]

\* uploads through the bucket into the owner's folder
SpecTransit == InitTransit /\ [][NextQuota]_vars

\* the cloud path cannot take an upload now
CloudUnavailable ==
  \/ ~r2.client
  \/ ~_check_quota(r2, 1, 0)
  \/ r2.active_uploads >= max_concurrent_uploads

\* C16: an upload over the threshold is sent to the local path ("tus")
\* whenever the bucket is not configured, no slot is free or the quota is
\* used up, and no request of an upload with a valid credential is answered
\* with an error because the bucket could not be used.
C16_FallsBackToLocal ==
  [][/\ \A u \in CloudUploads :
          (/\ r2.strategy[u] = "none" /\ r2'.strategy[u] # "none"
           /\ r2'.file_size[u] >= threshold
           /\ CloudUnavailable) => r2'.strategy[u] = "tus"
     /\ (/\ resp'.op \in {"init_upload", "create_multipart", "sign_part",
                          "complete_multipart"}
         /\ get_user_by_password(resp'.meta.password) # NoUser) =>
          resp'.status = 200
  ]_vars

\* the step in which handler p answers an Append with `status`
Answers(p, status) ==
  /\ pc[p] \in {"patch_body", "patch_written"}
  /\ resp'.op = "patch" /\ resp'.status = status /\ resp'.id = loc[p].id

KeptForRetry(id) ==
  /\ id \in DOMAIN tus_temp'
  /\ \A q \in DOMAIN user_files' : origin'[q] # id

\* the session's file is in the owner's folder and in the File Index
ImportedAndIndexed(id) ==
  \E q \in DOMAIN user_files' : origin'[q] = id /\ q \in DOMAIN files'

C24_LinkedToCanonical ==
  \A q \in deduped :
    q \in DOMAIN user_files =>
      LET h == Content(user_files, inode_data, q)
      IN (/\ h \in DOMAIN hash_map
          /\ hash_map[h] \in DOMAIN user_files
          /\ hash_map[h] \in deduped) =>
           user_files[q] = user_files[hash_map[h]]

\* the filenames of owner u on disk and in the File Index
DiskNames(uf, u) == {q[2] : q \in scan_disk_files(uf, u)}
IndexNames(f, u) == {k[2] : k \in IndexOf(f, u)}

LeftBehind ==
  {id \in DOMAIN tus_uploads :
     /\ Stale(tus_uploads[id])
     /\ id \in DOMAIN tus_uploads' \/ id \in DOMAIN tus_temp'}

C28_FailureDoesNotStopService ==
  [][/\ recon.pc = "users" => recon'.pc \in {"users", "done"}
     /\ (resp'.op = "sweep" /\ resp'.status = 500) => recon' = recon
    ]_vars

\* C29: the count of held upload slots stays within 0..max_concurrent_uploads
\* in every state, however the acquisitions of uploads and downloads and the
\* releases interleave, and a step that finds every slot held takes none: an
\* upload is then routed to the local path and the count does not rise.
C29_SlotsBounded ==
  /\ [](r2.active_uploads >= 0 /\ r2.active_uploads <= max_concurrent_uploads)
  /\ [][r2.active_uploads = max_concurrent_uploads =>
          /\ r2'.active_uploads <= r2.active_uploads
          /\ r2'.egress <= r2.egress
          /\ \A u \in CloudUploads : r2'.strategy[u] # r2.strategy[u] =>
                                       r2'.strategy[u] # "r2"
       ]_vars

\* every slot is held, by an upload and by a download at once, and an upload
\* over the threshold was just sent to the local path
C29_AllSlotsHeld ==
  /\ r2.active_uploads = max_concurrent_uploads
  /\ r2.egress > 0
  /\ \E u \in CloudUploads : r2.strategy[u] \in {"r2", "multipart", "signed"}
  /\ resp.op = "init_upload" /\ resp.status = 200
  /\ r2.strategy[resp.id] = "tus" /\ r2.file_size[resp.id] >= threshold

\* C30: once the calendar month differs from the month stored with the
\* usage counters, the next step that counts a request counts it for the new
\* month, starting from zero, and the next routing decision for an upload
\* over the threshold is taken on the new month's count: with the bucket
\* configured, a slot free and a valid credential it is not sent to the
\* local path because of the requests counted in the month before.
C30_CountersResetWithMonth ==
  [][r2.month # r2.wall_month =>
       /\ r2'.requests_class_a # r2.requests_class_a =>
            /\ r2'.month = r2.wall_month
            /\ r2'.requests_class_a = 1
       /\ \A u \in CloudUploads :
            (/\ r2.strategy[u] = "none" /\ r2'.strategy[u] # "none"
             /\ r2'.file_size[u] >= threshold
             /\ r2.client
             /\ r2.active_uploads < max_concurrent_uploads) =>
               r2'.strategy[u] = "r2"
    ]_vars

\* the owner's folder holds the bytes of cloud upload u under its path
StoredLocally(uf, data, u) ==
  local_path(u) \in DOMAIN uf /\ Content(uf, data, local_path(u)) = r2_bytes(u)

HashedFileUnchanged(p) ==
  LET file_path == <<loc[p].username, loc[p].name>>
  IN /\ file_path \in DOMAIN user_files
     /\ Content(user_files, inode_data, file_path) = loc[p].hash

\* C32: a step of the deduplicator on a file that has not changed since it
\* was hashed removes no file from a folder and leaves the bytes readable at
\* every path as they were, the path it works on included.
C32_DedupKeepsBytes ==
  [][\A p \in Procs :
       (pc[p] = "fin_dedup" /\ pc'[p] # "fin_dedup"
          /\ HashedFileUnchanged(p)) =>
         \A q \in DOMAIN user_files :
           /\ q \in DOMAIN user_files'
           /\ Content(user_files', inode_data', q)
                = Content(user_files, inode_data, q)
    ]_vars

\* the session is completed and no handler or background task works on it
FinalizationOver(id) ==
  /\ tus_uploads[id].status = "completed"
  /\ \A p \in Procs : pc[p] = "idle" \/ loc[p].id # id

Returned(id) == \A p \in Procs : pc[p] = "idle" \/ loc[p].id # id

Consuming(id) ==
  \E p \in Procs :
    /\ pc[p] # "idle" /\ loc[p].partial_ids # <<>>
    /\ \/ loc[p].id = id
       \/ \E i \in 1..Len(loc[p].partial_ids) : loc[p].partial_ids[i] = id

InProgress == {u \in CloudUploads :
                 r2.strategy[u] \in {"r2", "multipart", "signed", "download"}}

\* C39: a slot is held only for an upload that is still on its way and for a
\* download that is being copied to the bucket: the slot of an upload that
\* has completed or failed has been given back.
C39_SlotsGivenBack ==
  r2.active_uploads <= Cardinality(InProgress) + r2.egress

====
